---- MODULE Spec2Model ----
(***************************************************************************)
(* The execution loop of AutonomousAgent (next/src/components/             *)
(* AutonomousAgent.ts): one agent instance, its owner (the page that calls *)
(* run, updatePlayBackControl, updateIsRunning and stopAgent), the backend *)
(* calls it awaits and the task store its messages are rendered into.      *)
(*                                                                         *)
(* JavaScript runs one synchronous segment at a time, so an action is the  *)
(* code from one suspension point (a backend call or a setTimeout delay)   *)
(* to the next.  `await this.loop()` and `await this.startGoal()` call the *)
(* function synchronously and resume in a microtask, so the checkpoint at  *)
(* the head of loop() and the tail of run() belong to the segment that     *)
(* reaches them.                                                           *)
(***************************************************************************)
EXTENDS Integers, Sequences, FiniteSets, Bags, TLC

VARIABLES
    mode,             \* this.mode
    ctorControl,      \* the playbackControl argument of the constructor
    customMaxLoops,   \* this.modelSettings.customMaxLoops
    isRunning,        \* this.isRunning
    playbackControl,  \* this.playbackControl
    numLoops,         \* this.numLoops
    completedTasks,   \* this.completedTasks
    tasks,            \* useMessageStore.getState().tasks
    messages,         \* the bag of messages handed to renderMessage
    shutdownCalls,    \* number of calls of the shutdown callback
    pauseCalls,       \* the controls handed to the handlePause callback
    nextId,           \* the next task id v1() hands out
    nextValue,        \* the next task value the backend hands out
    pc,               \* per run() invocation: the suspension point it is at
    currentTask,      \* per invocation: loop()'s currentTask
    pending,          \* per invocation: the values the for loop has yet to add
    request,          \* per invocation: the arguments of its getAdditionalTasks call in flight
    runCalls,         \* number of run() invocations so far
    ownerCalls,       \* number of owner calls so far
    execCount,        \* number of times a task was marked Executing in the store
    playCount,        \* number of times the owner set the control to Play
    initRequests,     \* number of getInitialTasks requests
    initFailed,       \* a getInitialTasks request has failed
    followUpFailed,   \* a getAdditionalTasks request has failed
    hardStopped,      \* the owner set running to false and has not set it back
    lastError         \* the error of the last failed getInitialTasks request

vars == <<mode, ctorControl, customMaxLoops, isRunning, playbackControl,
          numLoops, completedTasks, tasks, messages, shutdownCalls, pauseCalls,
          nextId, nextValue, pc, currentTask, pending, request, runCalls, ownerCalls, execCount,
          playCount, initRequests, initFailed, followUpFailed, hardStopped,
          lastError>>

----------------------------------------------------------------------------
\* Bounds of the model.
MaxOwnerCalls == 3    \* calls of the owner: run, updatePlayBackControl, updateIsRunning, stopAgent
MaxTasks == 2         \* task values the backend ever returns

\* Values one decomposition or follow-up call returns.
MaxNew == MaxTasks

----------------------------------------------------------------------------
\* The names AutonomousAgent.ts imports from types/agentTypes and
\* utils/constants.  The agent compares them and never looks inside; the
\* default loop maximum stands for the fixed system default.
AGENT_PLAY == "play"
AGENT_PAUSE == "pause"
AUTOMATIC_MODE == "Automatic Mode"
PAUSE_MODE == "Pause Mode"
MESSAGE_TYPE_GOAL == "goal"
MESSAGE_TYPE_SYSTEM == "system"
MESSAGE_TYPE_TASK == "task"
MESSAGE_TYPE_THINKING == "thinking"
TASK_STATUS_STARTED == "started"
TASK_STATUS_EXECUTING == "executing"
TASK_STATUS_COMPLETED == "completed"
TASK_STATUS_FINAL == "final"
DEFAULT_MAX_LOOPS_FREE == 2

NoControl == "undefined"
\* modelSettings without a customMaxLoops.
NoOverride == -1
\* A string of the program: a literal text, the text of a translation key, or
\* the n-th task value of the backend.
Text(ns, key, n) == [ns |-> ns, key |-> key, n |-> n]
Literal(str) == Text("", str, 0)
NoTask == [taskId |-> 0, value |-> Literal("undefined")]
Goal == Literal("goal")

\* A failure of a backend call: an axios error with a response status, or
\* any other thrown value (status 0).
Errors == {[axios |-> TRUE, status |-> 429], [axios |-> TRUE, status |-> 404],
           [axios |-> TRUE, status |-> 500], [axios |-> FALSE, status |-> 0]}
\* onApiError tells status 429 from the rest; the failures of the calls whose
\* caller does not classify the error are one of each.
LoopErrors == {[axios |-> TRUE, status |-> 429], [axios |-> TRUE, status |-> 500]}
NoError == [axios |-> FALSE, status |-> -1]

Invocations == 1..MaxOwnerCalls

\* No getAdditionalTasks call in flight.
NoRequest == [current |-> Literal("undefined"), remaining |-> <<>>, completed |-> <<>>]

\* translate(key, "errors"): the text of a key of the errors namespace.
translate(key, ns) == Text(ns, key, 0)

Msg(type, value) == [type |-> type, value |-> value, status |-> "", taskId |-> 0, info |-> ""]
TaskMsg(id, value, status, info) ==
    [type |-> MESSAGE_TYPE_TASK, value |-> value, status |-> status, taskId |-> id, info |-> info]

\* The agent's mutable state as one record, so that the statements of a
\* synchronous segment compose.
State ==
    [isRunning |-> isRunning, playbackControl |-> playbackControl, numLoops |-> numLoops,
     completedTasks |-> completedTasks, tasks |-> tasks, messages |-> messages,
     shutdownCalls |-> shutdownCalls, pauseCalls |-> pauseCalls, nextId |-> nextId,
     nextValue |-> nextValue, execCount |-> execCount]

Commit(s) ==
    /\ isRunning' = s.isRunning
    /\ playbackControl' = s.playbackControl
    /\ numLoops' = s.numLoops
    /\ completedTasks' = s.completedTasks
    /\ tasks' = s.tasks
    /\ messages' = s.messages
    /\ shutdownCalls' = s.shutdownCalls
    /\ pauseCalls' = s.pauseCalls
    /\ nextId' = s.nextId
    /\ nextValue' = s.nextValue
    /\ execCount' = s.execCount

----------------------------------------------------------------------------
\* The task store behind renderMessage: a task message whose id is in the
\* store mutates that task in place (status, and the result when the message
\* carries one); any other task message appends a task.  Other messages leave
\* the tasks alone.
HasTask(ts, id) == \E k \in 1..Len(ts) : ts[k].taskId = id

addMessage(ts, m) ==
    IF m.type # MESSAGE_TYPE_TASK THEN ts
    ELSE IF HasTask(ts, m.taskId)
    THEN [k \in 1..Len(ts) |->
            IF ts[k].taskId = m.taskId
            THEN [ts[k] EXCEPT !.status = m.status,
                               !.info = IF m.info = "" THEN @ ELSE m.info]
            ELSE ts[k]]
    ELSE Append(ts, [taskId |-> m.taskId, value |-> m.value,
                     status |-> m.status, info |-> m.info])

\* The renderMessage callback: the message reaches the event sink and the
\* task store.
renderMessage(s, m) ==
    [s EXCEPT !.messages = @ (+) SetToBag({m}),
              !.tasks = addMessage(@, m),
              !.execCount = IF m.type = MESSAGE_TYPE_TASK /\ m.status = TASK_STATUS_EXECUTING
                               /\ HasTask(s.tasks, m.taskId)
                            THEN @ + 1 ELSE @]

sendMessage(s, m) == IF s.isRunning THEN renderMessage(s, m) ELSE s

sendGoalMessage(s) == sendMessage(s, Msg(MESSAGE_TYPE_GOAL, Goal))
sendThinkingMessage(s) == sendMessage(s, Msg(MESSAGE_TYPE_THINKING, Literal("")))
sendErrorMessage(s, error) == sendMessage(s, Msg(MESSAGE_TYPE_SYSTEM, error))
sendLoopMessage(s) ==
    sendMessage(s, Msg(MESSAGE_TYPE_SYSTEM, translate("DEMO_LOOPS_REACHED", "errors")))
sendManualShutdownMessage(s) ==
    sendMessage(s, Msg(MESSAGE_TYPE_SYSTEM, translate("AGENT_MANUALLY_SHUT_DOWN", "errors")))
sendCompletedMessage(s) ==
    sendMessage(s, Msg(MESSAGE_TYPE_SYSTEM, translate("ALL_TASKS_COMPLETETD", "errors")))

AnalysisActions == {"search"}
AnalysisText(action) ==
    Literal(IF action = "search" THEN "Searching the web" ELSE "Generating response")
sendAnalysisMessage(s, action) == sendMessage(s, Msg(MESSAGE_TYPE_SYSTEM, AnalysisText(action)))

\* The shutdown callback of the owner.
shutdown(s) == [s EXCEPT !.shutdownCalls = @ + 1]

\* The handlePause callback of the owner.
handlePause(s) == [s EXCEPT !.pauseCalls = Append(@, s.playbackControl)]

\* A getRemainingTasks that lists the newest Started task first.
getRemainingTasksNewestFirst(s) ==
    LET rem == SelectSeq(s.tasks, LAMBDA t : t.status = TASK_STATUS_STARTED)
    IN [k \in 1..Len(rem) |-> rem[Len(rem) + 1 - k]]

getRemainingTasks(s) == SelectSeq(s.tasks, LAMBDA t : t.status = TASK_STATUS_STARTED)

\* `customMaxLoops || DEFAULT_MAX_LOOPS_FREE`: an absent and a zero
\* customMaxLoops are both falsy.
maxLoops ==
    IF customMaxLoops \in {NoOverride, 0} THEN DEFAULT_MAX_LOOPS_FREE ELSE customMaxLoops

\* A conditionalPause that leaves a consumed Play in place.
conditionalPauseNoReset(s) ==
    IF mode # PAUSE_MODE THEN s
    ELSE [s EXCEPT !.isRunning = ~(s.playbackControl = AGENT_PAUSE)]

\* A conditionalPause that resets the control and leaves isRunning alone.
conditionalPauseKeepsRunning(s) ==
    IF mode # PAUSE_MODE THEN s
    ELSE [s EXCEPT !.playbackControl = IF @ = AGENT_PLAY THEN AGENT_PAUSE ELSE @]

conditionalPause(s) ==
    IF mode # PAUSE_MODE THEN s
    ELSE [s EXCEPT !.isRunning = ~(s.playbackControl = AGENT_PAUSE),
                   !.playbackControl = IF @ = AGENT_PLAY THEN AGENT_PAUSE ELSE @]

\* getMessageFromError: the second `if` has the `else`, so it decides the
\* message of every axios error.
getMessageFromError(e) ==
    LET m0 == "ERROR_RETRIEVE_INITIAL_TASKS"
        m1 == IF e.axios /\ e.status = 429 THEN "ERROR_API_KEY_QUOTA" ELSE m0
        m2 == IF e.axios
              THEN IF e.status = 404 THEN "ERROR_OPENAI_API_KEY_NO_GPT4"
                                     ELSE "ERROR_ACCESSING_OPENAI_API_KEY"
              ELSE m1
    IN translate(m2, "errors")

\* onApiError, up to its `throw e`.
onApiError(s, e) ==
    LET s1 == shutdown(s)
    IN IF e.axios /\ e.status = 429
       THEN sendErrorMessage(s1, translate("RATE_LIMIT_EXCEEDED", "errors"))
       ELSE s1

\* AgentApi.post: a failed request hands the error to the onError callback
\* given to the constructor, which rethrows it to the awaiting caller.
postFailed(s, e) == onApiError(s, e)

\* The tail of run() after `await this.loop()`.
RunTail(s) ==
    IF mode = PAUSE_MODE /\ ~s.isRunning THEN handlePause(s) ELSE s

\* A loop() that tests the budget before it counts the iteration.
LoopHeadLateCount(s) ==
    LET s1 == conditionalPause(s)
        s2 == [s1 EXCEPT !.numLoops = @ + 1]
    IN IF ~s1.isRunning
       THEN [st |-> RunTail(s1), next |-> "done"]
       ELSE IF Len(getRemainingTasks(s1)) = 0
       THEN [st |-> RunTail(shutdown(sendCompletedMessage(s1))), next |-> "done"]
       ELSE IF s1.numLoops > maxLoops
       THEN [st |-> RunTail(shutdown(sendLoopMessage(s2))), next |-> "done"]
       ELSE [st |-> s2, next |-> "delay1"]

\* A loop() that counts the iteration before the completion check.
LoopHeadCountFirst(s) ==
    LET s1 == conditionalPause(s)
        s2 == [s1 EXCEPT !.numLoops = @ + 1]
    IN IF ~s1.isRunning
       THEN [st |-> RunTail(s1), next |-> "done"]
       ELSE IF Len(getRemainingTasks(s2)) = 0
       THEN [st |-> RunTail(shutdown(sendCompletedMessage(s2))), next |-> "done"]
       ELSE IF s2.numLoops > maxLoops
       THEN [st |-> RunTail(shutdown(sendLoopMessage(s2))), next |-> "done"]
       ELSE [st |-> s2, next |-> "delay1"]

\* A loop() that returns without a word when no task is left.
LoopHeadSilentCompletion(s) ==
    LET s1 == conditionalPause(s)
        s2 == [s1 EXCEPT !.numLoops = @ + 1]
    IN IF ~s1.isRunning
       THEN [st |-> RunTail(s1), next |-> "done"]
       ELSE IF Len(getRemainingTasks(s1)) = 0
       THEN [st |-> RunTail(s1), next |-> "done"]
       ELSE IF s2.numLoops > maxLoops
       THEN [st |-> RunTail(shutdown(sendLoopMessage(s2))), next |-> "done"]
       ELSE [st |-> s2, next |-> "delay1"]

\* The part of loop() before its first await, from state s.  The result is
\* the state after it and whether loop() went on to the first delay; when it
\* returned instead, every loop() frame below returns and run() runs its tail.
LoopHead(s) ==
    LET s1 == conditionalPause(s)
        s2 == [s1 EXCEPT !.numLoops = @ + 1]
    IN IF ~s1.isRunning
       THEN [st |-> RunTail(s1), next |-> "done"]
       ELSE IF Len(getRemainingTasks(s1)) = 0
       THEN [st |-> RunTail(shutdown(sendCompletedMessage(s1))), next |-> "done"]
       ELSE IF s2.numLoops > maxLoops
       THEN [st |-> RunTail(shutdown(sendLoopMessage(s2))), next |-> "done"]
       ELSE [st |-> s2, next |-> "delay1"]

----------------------------------------------------------------------------
\* new AutonomousAgent(...): `playbackControl || this.mode == PAUSE_MODE ?
\* AGENT_PAUSE : AGENT_PLAY` groups as `(playbackControl || mode == PAUSE_MODE)
\* ? AGENT_PAUSE : AGENT_PLAY`.
ctorPlaybackControl(m, c) ==
    IF c # NoControl \/ m = PAUSE_MODE THEN AGENT_PAUSE ELSE AGENT_PLAY

Init ==
    /\ mode \in {AUTOMATIC_MODE, PAUSE_MODE}
    /\ ctorControl = NoControl
    /\ customMaxLoops \in {NoOverride, 1}
    /\ isRunning = FALSE
    /\ playbackControl = ctorPlaybackControl(mode, ctorControl)
    /\ numLoops = 0
    /\ completedTasks = <<>>
    /\ tasks = <<>>
    /\ messages = EmptyBag
    /\ shutdownCalls = 0
    /\ pauseCalls = <<>>
    /\ nextId = 1
    /\ nextValue = 1
    /\ pc = [i \in Invocations |-> "idle"]
    /\ currentTask = [i \in Invocations |-> NoTask]
    /\ pending = [i \in Invocations |-> <<>>]
    /\ request = [i \in Invocations |-> NoRequest]
    /\ runCalls = 0
    /\ ownerCalls = 0
    /\ execCount = 0
    /\ playCount = 0
    /\ initRequests = 0
    /\ initFailed = FALSE
    /\ followUpFailed = FALSE
    /\ hardStopped = FALSE
    /\ lastError = NoError

Config == <<mode, ctorControl, customMaxLoops>>
Owner == <<runCalls, ownerCalls, playCount, hardStopped>>
Boot == <<initRequests, initFailed, lastError>>
Backend == <<Boot, followUpFailed>>

\* A task value is an opaque string the agent never inspects: the k-th value
\* the backend ever hands out is written k, and a returned list is the run of
\* values from..from+n-1.
Values(from, n) == [k \in 1..n |-> Text("value", "", from + k - 1)]
ValueLists == {Values(from, n) : from \in 1..MaxTasks, n \in 0..MaxNew}
Returned == {Values(nextValue, n) : n \in 0..(IF MaxTasks - (nextValue - 1) < MaxNew
                                              THEN MaxTasks - (nextValue - 1) ELSE MaxNew)}

\* The first argument of getAdditionalTasks, built from state s for the
\* current task cur.
followUpRequest(s, cur) ==
    LET rem == getRemainingTasks(s)
    IN [current |-> cur.value,
        remaining |-> [k \in 1..Len(rem) |-> rem[k].value],
        completed |-> s.completedTasks]

\* Invocation i moves to suspension point p with the locals cur and pend; a
\* finished invocation has no locals.  Moving to getAdditionalTasks sends the
\* request built from the state as it is.
Goto(i, p, cur, pend) ==
    /\ pc' = [pc EXCEPT ![i] = p]
    /\ request' = [request EXCEPT ![i] = IF p = "getAdditionalTasks"
                                         THEN followUpRequest(State, cur) ELSE NoRequest]
    /\ currentTask' = [currentTask EXCEPT ![i] = IF p \in {"done", "rejected"} THEN NoTask ELSE cur]
    /\ pending' = [pending EXCEPT ![i] = IF p \in {"done", "rejected"} THEN <<>> ELSE pend]

\* From state s invocation i enters loop(): it either reaches the first
\* delay or its run() finishes.
EnterLoop(i, s) ==
    LET r == LoopHead(s)
    IN /\ Commit(r.st)
       /\ Goto(i, r.next, NoTask, <<>>)

\* One turn of `for (const value of ...)` after its delay: the task is built
\* with a fresh id and sent.
createTask(s, value) ==
    [sendMessage(s, TaskMsg(s.nextId, value, TASK_STATUS_STARTED, ""))
        EXCEPT !.nextId = @ + 1]

\* run(): the owner starts an invocation.  With isRunning false it sets the
\* flag and startGoal() requests the initial tasks; otherwise it enters
\* loop() at once.
Run(i) ==
    /\ ownerCalls < MaxOwnerCalls
    /\ i = runCalls + 1
    /\ pc[i] = "idle"
    /\ runCalls' = runCalls + 1
    /\ ownerCalls' = ownerCalls + 1
    /\ IF ~isRunning
       THEN /\ Commit(sendThinkingMessage(sendGoalMessage([State EXCEPT !.isRunning = TRUE])))
            /\ Goto(i, "getInitialTasks", NoTask, <<>>)
            /\ initRequests' = initRequests + 1
            /\ hardStopped' = FALSE
       ELSE /\ EnterLoop(i, State)
            /\ UNCHANGED <<initRequests, hardStopped>>
    /\ UNCHANGED <<Config, playCount, initFailed, followUpFailed, lastError>>

\* getInitialTasks() resolves with vs.
GetInitialTasksOk(i, vs) ==
    /\ pc[i] = "getInitialTasks"
    /\ vs \in Returned
    /\ IF vs = <<>>
       THEN EnterLoop(i, State)
       ELSE Commit([State EXCEPT !.nextValue = @ + Len(vs)]) /\ Goto(i, "initDelay", NoTask, vs)
    /\ UNCHANGED <<Config, Owner, Backend>>

\* The TIMOUT_SHORT delay of startGoal's for loop ends: the next initial
\* task is sent; after the last one startGoal returns and run() enters loop().
InitDelayDone(i) ==
    /\ pc[i] = "initDelay"
    /\ LET s1 == createTask(State, Head(pending[i]))
       IN IF Len(pending[i]) = 1
          THEN EnterLoop(i, s1)
          ELSE Commit(s1) /\ Goto(i, "initDelay", NoTask, Tail(pending[i]))
    /\ UNCHANGED <<Config, Owner, Backend>>

\* getInitialTasks() rejects with e: the catch of startGoal sends the
\* message of the error and calls shutdown; startGoal returns and run() goes
\* on to `await this.loop()`.
GetInitialTasksFail(i, e) ==
    /\ pc[i] = "getInitialTasks"
    /\ e \in Errors
    /\ initFailed' = TRUE
    /\ lastError' = e
    /\ EnterLoop(i, shutdown(sendErrorMessage(postFailed(State, e), getMessageFromError(e))))
    /\ UNCHANGED <<Config, Owner, initRequests, followUpFailed>>

----------------------------------------------------------------------------
Result == "result"

\* The TIMEOUT_LONG delay before the task starts ends: the head of the
\* remaining tasks becomes currentTask and is sent as Executing.  With no
\* remaining task currentTask is undefined: the message sent has a status and
\* no type, and reading currentTask.value throws, which rejects run().
\* isWebSearchEnabled is the flag of the agent store as read at this moment.
Delay1Done(i, isWebSearchEnabled) ==
    /\ pc[i] = "delay1"
    /\ isWebSearchEnabled \in BOOLEAN
    /\ LET rem == getRemainingTasks(State)
       IN IF rem = <<>>
          THEN /\ Commit(sendThinkingMessage(sendMessage(State,
                      [Msg("undefined", Literal("undefined")) EXCEPT !.status = TASK_STATUS_EXECUTING])))
               /\ Goto(i, "rejected", NoTask, <<>>)
          ELSE /\ Commit(sendThinkingMessage(sendMessage(State,
                      TaskMsg(rem[1].taskId, rem[1].value, TASK_STATUS_EXECUTING, rem[1].info))))
               /\ Goto(i, IF isWebSearchEnabled THEN "analyzeTask" ELSE "executeTask",
                       [taskId |-> rem[1].taskId, value |-> rem[1].value], <<>>)
    /\ UNCHANGED <<Config, Owner, Backend>>

\* analyzeTask() resolves with an analysis whose action is a.
AnalyzeTaskOk(i, a) ==
    /\ pc[i] = "analyzeTask"
    /\ a \in AnalysisActions
    /\ Commit(sendAnalysisMessage(State, a))
    /\ Goto(i, "executeTask", currentTask[i], <<>>)
    /\ UNCHANGED <<Config, Owner, Backend>>

\* analyzeTask() or executeTask() rejects: loop() has no catch around them,
\* so after onApiError the rejection leaves loop() and run().
BackendCallFail(i, e) ==
    /\ pc[i] \in {"analyzeTask", "executeTask"}
    /\ e \in LoopErrors
    /\ Commit(postFailed(State, e))
    /\ Goto(i, "rejected", NoTask, <<>>)
    /\ UNCHANGED <<Config, Owner, Backend>>

\* executeTask() resolves: the task is sent as Completed with the result and
\* its value joins completedTasks.
ExecuteTaskOk(i) ==
    /\ pc[i] = "executeTask"
    /\ LET s1 == sendMessage(State, TaskMsg(currentTask[i].taskId, currentTask[i].value,
                                            TASK_STATUS_COMPLETED, Result))
       IN Commit([s1 EXCEPT !.completedTasks = Append(@, currentTask[i].value)])
    /\ Goto(i, "delay2", currentTask[i], <<>>)
    /\ UNCHANGED <<Config, Owner, Backend>>

\* The TIMEOUT_LONG delay before adding tasks ends: getAdditionalTasks is
\* requested.
Delay2Done(i) ==
    /\ pc[i] = "delay2"
    /\ Commit(sendThinkingMessage(State))
    /\ Goto(i, "getAdditionalTasks", currentTask[i], <<>>)
    /\ UNCHANGED <<Config, Owner, Backend>>

sendFinal(s, i) ==
    sendMessage(s, TaskMsg(currentTask[i].taskId, currentTask[i].value, TASK_STATUS_FINAL, ""))

\* getAdditionalTasks() resolves with vs: with no new task the current task
\* is sent as Final and loop() calls itself.
GetAdditionalTasksOk(i, vs) ==
    /\ pc[i] = "getAdditionalTasks"
    /\ vs \in Returned
    /\ IF vs = <<>>
       THEN EnterLoop(i, sendFinal(State, i))
       ELSE /\ Commit([State EXCEPT !.nextValue = @ + Len(vs)])
            /\ Goto(i, "addDelay", currentTask[i], vs)
    /\ UNCHANGED <<Config, Owner, Backend>>

\* The TIMOUT_SHORT delay of loop()'s for loop ends: the next new task is
\* sent; after the last one loop() calls itself.
AddDelayDone(i) ==
    /\ pc[i] = "addDelay"
    /\ LET s1 == createTask(State, Head(pending[i]))
       IN IF Len(pending[i]) = 1
          THEN EnterLoop(i, s1)
          ELSE Commit(s1) /\ Goto(i, "addDelay", currentTask[i], Tail(pending[i]))
    /\ UNCHANGED <<Config, Owner, Backend>>

\* getAdditionalTasks() rejects with e: the catch sends the error text and
\* the current task as Final, and loop() calls itself.
GetAdditionalTasksFail(i, e) ==
    /\ pc[i] = "getAdditionalTasks"
    /\ e \in LoopErrors
    /\ EnterLoop(i, sendFinal(sendErrorMessage(postFailed(State, e),
                        translate("ERROR_ADDING_ADDITIONAL_TASKS", "errors")), i))
    /\ followUpFailed' = TRUE
    /\ UNCHANGED <<Config, Owner, Boot>>

----------------------------------------------------------------------------
\* The owner's other calls.  A call that changes nothing (the control or the
\* flag already has the value, and no Play is requested) is a stuttering step
\* and does not count against MaxOwnerCalls.
Loop == <<pc, currentTask, pending, request>>

\* An updatePlayBackControl whose request for the value the control already
\* has flips the control.
UpdatePlayBackControlToggle(c) ==
    /\ ownerCalls < MaxOwnerCalls
    /\ ownerCalls' = ownerCalls + 1
    /\ c \in {AGENT_PLAY, AGENT_PAUSE}
    /\ c # playbackControl \/ c = AGENT_PLAY
    /\ Commit([State EXCEPT !.playbackControl =
                  IF c # @ THEN c ELSE IF c = AGENT_PLAY THEN AGENT_PAUSE ELSE AGENT_PLAY])
    /\ playCount' = IF c = AGENT_PLAY THEN playCount + 1 ELSE playCount
    /\ UNCHANGED <<Config, Backend, Loop, runCalls, hardStopped>>

UpdatePlayBackControl(c) ==
    /\ ownerCalls < MaxOwnerCalls
    /\ ownerCalls' = ownerCalls + 1
    /\ c \in {AGENT_PLAY, AGENT_PAUSE}
    /\ c # playbackControl \/ c = AGENT_PLAY
    /\ Commit([State EXCEPT !.playbackControl = c])
    /\ playCount' = IF c = AGENT_PLAY THEN playCount + 1 ELSE playCount
    /\ UNCHANGED <<Config, Backend, Loop, runCalls, hardStopped>>

UpdateIsRunning(b) ==
    /\ ownerCalls < MaxOwnerCalls
    /\ ownerCalls' = ownerCalls + 1
    /\ b \in BOOLEAN
    /\ b # isRunning \/ hardStopped = b
    /\ Commit([State EXCEPT !.isRunning = b])
    /\ hardStopped' = ~b
    /\ UNCHANGED <<Config, Backend, Loop, runCalls, playCount>>

StopAgent ==
    /\ ownerCalls < MaxOwnerCalls
    /\ ownerCalls' = ownerCalls + 1
    /\ Commit(shutdown([sendManualShutdownMessage(State) EXCEPT !.isRunning = FALSE]))
    /\ hardStopped' = TRUE
    /\ UNCHANGED <<Config, Backend, Loop, runCalls, playCount>>

Next ==
    \/ \E i \in Invocations : Run(i)
    \/ \E i \in Invocations, vs \in ValueLists : GetInitialTasksOk(i, vs)
    \/ \E i \in Invocations : InitDelayDone(i)
    \/ \E i \in Invocations, e \in Errors : GetInitialTasksFail(i, e)
    \/ \E i \in Invocations, ws \in BOOLEAN : Delay1Done(i, ws)
    \/ \E i \in Invocations, a \in AnalysisActions : AnalyzeTaskOk(i, a)
    \/ \E i \in Invocations, e \in LoopErrors : BackendCallFail(i, e)
    \/ \E i \in Invocations : ExecuteTaskOk(i)
    \/ \E i \in Invocations : Delay2Done(i)
    \/ \E i \in Invocations, vs \in ValueLists : GetAdditionalTasksOk(i, vs)
    \/ \E i \in Invocations : AddDelayDone(i)
    \/ \E i \in Invocations, e \in LoopErrors : GetAdditionalTasksFail(i, e)
    \/ \E c \in {AGENT_PLAY, AGENT_PAUSE} : UpdatePlayBackControl(c)
    \/ \E b \in BOOLEAN : UpdateIsRunning(b)
    \/ StopAgent

Spec == Init /\ [][Next]_vars

\* The same agent with one owner call less.
Short == ownerCalls' < MaxOwnerCalls
NextShort ==
    \/ \E i \in Invocations : Run(i) /\ Short
    \/ \E i \in Invocations, vs \in ValueLists : GetInitialTasksOk(i, vs)
    \/ \E i \in Invocations : InitDelayDone(i)
    \/ \E i \in Invocations, e \in Errors : GetInitialTasksFail(i, e)
    \/ \E i \in Invocations, ws \in BOOLEAN : Delay1Done(i, ws)
    \/ \E i \in Invocations, a \in AnalysisActions : AnalyzeTaskOk(i, a)
    \/ \E i \in Invocations, e \in LoopErrors : BackendCallFail(i, e)
    \/ \E i \in Invocations : ExecuteTaskOk(i)
    \/ \E i \in Invocations : Delay2Done(i)
    \/ \E i \in Invocations, vs \in ValueLists : GetAdditionalTasksOk(i, vs)
    \/ \E i \in Invocations : AddDelayDone(i)
    \/ \E i \in Invocations, e \in LoopErrors : GetAdditionalTasksFail(i, e)
    \/ \E c \in {AGENT_PLAY, AGENT_PAUSE} : UpdatePlayBackControl(c) /\ Short
    \/ \E b \in BOOLEAN : UpdateIsRunning(b) /\ Short
    \/ StopAgent /\ Short
SpecShort == Init /\ [][NextShort]_vars

\* The same agent with an owner that calls run() once.
First == runCalls = 0
NextOneRun ==
    \/ \E i \in Invocations : Run(i) /\ First
    \/ \E i \in Invocations, vs \in ValueLists : GetInitialTasksOk(i, vs)
    \/ \E i \in Invocations : InitDelayDone(i)
    \/ \E i \in Invocations, e \in Errors : GetInitialTasksFail(i, e)
    \/ \E i \in Invocations, ws \in BOOLEAN : Delay1Done(i, ws)
    \/ \E i \in Invocations, a \in AnalysisActions : AnalyzeTaskOk(i, a)
    \/ \E i \in Invocations, e \in LoopErrors : BackendCallFail(i, e)
    \/ \E i \in Invocations : ExecuteTaskOk(i)
    \/ \E i \in Invocations : Delay2Done(i)
    \/ \E i \in Invocations, vs \in ValueLists : GetAdditionalTasksOk(i, vs)
    \/ \E i \in Invocations : AddDelayDone(i)
    \/ \E i \in Invocations, e \in LoopErrors : GetAdditionalTasksFail(i, e)
    \/ \E c \in {AGENT_PLAY, AGENT_PAUSE} : UpdatePlayBackControl(c)
    \/ \E b \in BOOLEAN : UpdateIsRunning(b)
    \/ StopAgent
SpecOneRun == Init /\ [][NextOneRun]_vars

\* The agent whose backend calls and delays all come back, with a result or
\* with a failure the caller handles (getInitialTasks, getAdditionalTasks),
\* and whose owner never stops it: the owner calls run(), sets the control and
\* sets running to true, with one call less than MaxOwnerCalls.
Returns ==
    \/ \E i \in Invocations, vs \in ValueLists : GetInitialTasksOk(i, vs)
    \/ \E i \in Invocations : InitDelayDone(i)
    \/ \E i \in Invocations, e \in Errors : GetInitialTasksFail(i, e)
    \/ \E i \in Invocations, ws \in BOOLEAN : Delay1Done(i, ws)
    \/ \E i \in Invocations, a \in AnalysisActions : AnalyzeTaskOk(i, a)
    \/ \E i \in Invocations : ExecuteTaskOk(i)
    \/ \E i \in Invocations : Delay2Done(i)
    \/ \E i \in Invocations, vs \in ValueLists : GetAdditionalTasksOk(i, vs)
    \/ \E i \in Invocations : AddDelayDone(i)
    \/ \E i \in Invocations, e \in LoopErrors : GetAdditionalTasksFail(i, e)
NextLive ==
    \/ \E i \in Invocations : Run(i) /\ Short
    \/ \E i \in Invocations, vs \in ValueLists : GetInitialTasksOk(i, vs)
    \/ \E i \in Invocations : InitDelayDone(i)
    \/ \E i \in Invocations, e \in Errors : GetInitialTasksFail(i, e)
    \/ \E i \in Invocations, ws \in BOOLEAN : Delay1Done(i, ws)
    \/ \E i \in Invocations, a \in AnalysisActions : AnalyzeTaskOk(i, a)
    \/ \E i \in Invocations : ExecuteTaskOk(i)
    \/ \E i \in Invocations : Delay2Done(i)
    \/ \E i \in Invocations, vs \in ValueLists : GetAdditionalTasksOk(i, vs)
    \/ \E i \in Invocations : AddDelayDone(i)
    \/ \E i \in Invocations, e \in LoopErrors : GetAdditionalTasksFail(i, e)
    \/ \E c \in {AGENT_PLAY, AGENT_PAUSE} : UpdatePlayBackControl(c) /\ Short
    \/ UpdateIsRunning(TRUE) /\ Short
SpecLive == Init /\ [][NextLive]_vars /\ WF_vars(Returns)

----------------------------------------------------------------------------
\* The notices of the run.
SystemMsg(key) == Msg(MESSAGE_TYPE_SYSTEM, translate(key, "errors"))
CompletedMsg == SystemMsg("ALL_TASKS_COMPLETETD")
LoopMsg == SystemMsg("DEMO_LOOPS_REACHED")
ManualShutdownMsg == SystemMsg("AGENT_MANUALLY_SHUT_DOWN")
DegradedMsg == SystemMsg("ERROR_ADDING_ADDITIONAL_TASKS")
GoalMsg == Msg(MESSAGE_TYPE_GOAL, Goal)

Executing(ts) == {k \in 1..Len(ts) : ts[k].status = TASK_STATUS_EXECUTING}

\* Invocation i passes the checks at the head of loop() in this step.
BeginsIteration(i) == pc'[i] = "delay1" /\ pc[i] # "delay1"
\* Invocation i ends an iteration in this step and reaches the next checkpoint.
EndsIteration(i) ==
    /\ pc[i] \in {"getAdditionalTasks", "addDelay"}
    /\ pc'[i] \notin {"getAdditionalTasks", "addDelay"}

\* The run has reached a terminal state: Failed, Completed, LoopLimitReached
\* or Stopped.
Terminal ==
    \/ initFailed
    \/ CopiesIn(CompletedMsg, messages) > 0
    \/ CopiesIn(LoopMsg, messages) > 0
    \/ CopiesIn(ManualShutdownMsg, messages) > 0

\* C1: the shutdown callback is invoked exactly once per run: never twice,
\* at least once when a terminal state is reached, and once it was invoked no
\* further task is marked Executing.
C1_ShutdownExactlyOnce ==
    [][/\ shutdownCalls' <= 1
       /\ (Terminal' => shutdownCalls' >= 1)
       /\ (shutdownCalls >= 1 => execCount' = execCount)]_vars

\* C2: in every reachable state at most one task of the store is Executing.
C2_AtMostOneExecuting == Cardinality(Executing(tasks)) <= 1

\* C3: numLoops never decreases and grows by exactly one with each iteration
\* that passes the completion check; a cycle that ends with the agent paused
\* or stopped leaves it alone; an iteration begins only with numLoops within
\* maxLoops, none begins once numLoops > maxLoops, and the number of tasks
\* ever marked Executing never exceeds maxLoops.
C3_Step ==
    /\ numLoops' \in {numLoops, numLoops + 1}
    /\ \A i \in Invocations : BeginsIteration(i) =>
          numLoops' = numLoops + 1 /\ numLoops' <= maxLoops
    /\ ~isRunning' => numLoops' = numLoops
    /\ numLoops > maxLoops => \A i \in Invocations : ~BeginsIteration(i)
C3_LoopCountBudget == [](execCount <= maxLoops) /\ [][C3_Step]_vars

\* C3's witness: the budget was used up by maxLoops executed iterations and
\* the check that followed found numLoops > maxLoops.
C3_Witness ==
    /\ numLoops > maxLoops
    /\ execCount = maxLoops
    /\ CopiesIn(LoopMsg, messages) = 1

\* C4: the status of a task only moves one step forward along Started,
\* Executing, Completed, Final, and a new task is Started.
Forward(a, b) ==
    \/ a = b
    \/ a = TASK_STATUS_STARTED /\ b = TASK_STATUS_EXECUTING
    \/ a = TASK_STATUS_EXECUTING /\ b = TASK_STATUS_COMPLETED
    \/ a = TASK_STATUS_COMPLETED /\ b = TASK_STATUS_FINAL
C4_StatusPrefix ==
    [][/\ Len(tasks') >= Len(tasks)
       /\ \A k \in 1..Len(tasks) : Forward(tasks[k].status, tasks'[k].status)
       /\ \A k \in (Len(tasks) + 1)..Len(tasks') : tasks'[k].status = TASK_STATUS_STARTED]_vars

\* C5: while the owner has set running to false (stopAgent or
\* updateIsRunning(false)) and has not set it back (updateIsRunning(true), or
\* run() starting the agent), no task is marked Executing, in either mode.
C5_HardStop == [][hardStopped => execCount' = execCount]_vars

\* C6: in Stepwise mode the tasks marked Executing never outnumber the Play
\* requests of the owner; the pause check that lets an iteration begin leaves
\* the control at Pause; and with the control at Pause the checkpoint after an
\* iteration pauses: running is false and run() returns.
C6_Step ==
    /\ \A i \in Invocations : BeginsIteration(i) => playbackControl' = AGENT_PAUSE
    /\ \A i \in Invocations : EndsIteration(i) /\ playbackControl = AGENT_PAUSE =>
          pc'[i] = "done" /\ ~isRunning'
C6_OneIterationPerPlay ==
    /\ [](mode = PAUSE_MODE => execCount <= playCount)
    /\ [][mode = PAUSE_MODE => C6_Step]_vars

\* C6's witness: a Stepwise run executed the one iteration its one Play
\* authorized and paused at the next checkpoint.
C6_Witness ==
    /\ mode = PAUSE_MODE
    /\ playCount = 1
    /\ execCount = 1
    /\ \E k \in 1..Len(tasks) : tasks[k].status = TASK_STATUS_FINAL
    /\ \E k \in 1..Len(tasks) : tasks[k].status = TASK_STATUS_STARTED
    /\ ~isRunning
    /\ playbackControl = AGENT_PAUSE
    /\ Len(pauseCalls) = 1
    /\ \A i \in Invocations : pc[i] \in {"idle", "done"}

\* C7: the step in which the initial decomposition fails emits one message,
\* calls shutdown once and does nothing of loop(): no pause check (running,
\* control and the pause hook are untouched), no completion notice, no budget
\* check, no task created or marked Executing.
C7_InitFailureStopsRun ==
    [][(~initFailed /\ initFailed') =>
          /\ shutdownCalls' = shutdownCalls + 1
          /\ isRunning => BagCardinality(messages') = BagCardinality(messages) + 1
          /\ CopiesIn(CompletedMsg, messages') = CopiesIn(CompletedMsg, messages)
          /\ isRunning' = isRunning
          /\ playbackControl' = playbackControl
          /\ pauseCalls' = pauseCalls
          /\ numLoops' = numLoops
          /\ tasks' = tasks
          /\ execCount' = execCount]_vars

\* C8: the step in which follow-up generation fails emits the degraded-mode
\* notice, marks the current task Final, creates no task, and when loop()
\* goes on to the next iteration the run was not shut down.
C8_FollowUpFailureNonFatal ==
    [][(~followUpFailed /\ followUpFailed') =>
          \A i \in Invocations : EndsIteration(i) =>
             /\ isRunning => CopiesIn(DegradedMsg, messages') = CopiesIn(DegradedMsg, messages) + 1
             /\ isRunning => \E k \in 1..Len(tasks') :
                               /\ tasks'[k].taskId = currentTask[i].taskId
                               /\ tasks'[k].status = TASK_STATUS_FINAL
             /\ Len(tasks') = Len(tasks)
             /\ pc'[i] \in {"delay1", "done"}
             /\ pc'[i] = "delay1" => shutdownCalls' = shutdownCalls]_vars

\* C9: in a Stepwise run whose owner only calls run() and requests Play, the
\* initial decomposition is requested and the goal message emitted at most
\* once.
C9_BootstrapOnce ==
    (mode = PAUSE_MODE /\ ownerCalls = runCalls + playCount) =>
        initRequests <= 1 /\ CopiesIn(GoalMsg, messages) <= 1

\* C10: after a failed initial decomposition of an undisturbed run the message
\* of the failure's class was emitted: 429 the quota message, 404 the
\* access-tier message, any other axios error the credential message, any
\* other failure the initial-tasks message.
ClaimedKey(e) ==
    IF e.axios /\ e.status = 429 THEN "ERROR_API_KEY_QUOTA"
    ELSE IF e.axios /\ e.status = 404 THEN "ERROR_OPENAI_API_KEY_NO_GPT4"
    ELSE IF e.axios THEN "ERROR_ACCESSING_OPENAI_API_KEY"
    ELSE "ERROR_RETRIEVE_INITIAL_TASKS"
C10_ErrorClassified ==
    (initFailed /\ ownerCalls = 1) => CopiesIn(SystemMsg(ClaimedKey(lastError)), messages) >= 1

\* C11: task selection is FIFO.  The store keeps its tasks in creation order:
\* a task never moves nor changes id or value, a new task is appended as
\* Started after all existing ones with the head of the list being added as
\* its value; and a task is marked Executing only when it is Started and no
\* task created before it is Started.
C11_Step ==
    /\ Len(tasks') >= Len(tasks)
    /\ \A k \in 1..Len(tasks) :
          tasks'[k].taskId = tasks[k].taskId /\ tasks'[k].value = tasks[k].value
    /\ \A k \in (Len(tasks) + 1)..Len(tasks') :
          /\ tasks'[k].status = TASK_STATUS_STARTED
          /\ \A j \in 1..(k - 1) : tasks'[j].taskId < tasks'[k].taskId
          /\ \A i \in Invocations :
                pc[i] \in {"initDelay", "addDelay"} /\ pending'[i] # pending[i] =>
                   tasks'[k].value = Head(pending[i])
    /\ \A k \in 1..Len(tasks) :
          tasks[k].status # TASK_STATUS_EXECUTING /\ tasks'[k].status = TASK_STATUS_EXECUTING =>
             /\ tasks[k].status = TASK_STATUS_STARTED
             /\ \A j \in 1..(k - 1) : tasks[j].status # TASK_STATUS_STARTED
C11_FifoSelection == [][C11_Step]_vars

\* C11's witness: of two tasks of one decomposition the older one was
\* executed first and the younger one is Executing now.
C11_Witness ==
    /\ Len(tasks) = 2
    /\ tasks[1].value.n < tasks[2].value.n
    /\ tasks[1].status \in {TASK_STATUS_COMPLETED, TASK_STATUS_FINAL}
    /\ tasks[2].status = TASK_STATUS_EXECUTING
    /\ completedTasks = <<tasks[1].value>>

\* Invocation i receives an empty initial decomposition in this step: its
\* getInitialTasks request ends without a task to add, and not by a failure
\* (a failure calls shutdown in onApiError and again in startGoal's catch).
EmptyDecomposition(i) ==
    /\ pc[i] = "getInitialTasks"
    /\ pc'[i] \in {"done", "delay1"}
    /\ shutdownCalls' <= shutdownCalls + 1

\* C12: in either mode the step that receives an empty initial decomposition
\* emits a completion notice and shuts the run down, leaves numLoops alone and
\* marks no task Executing.
C12_EmptyDecompositionCompletes ==
    [][\A i \in Invocations : EmptyDecomposition(i) =>
          /\ CopiesIn(CompletedMsg, messages') = CopiesIn(CompletedMsg, messages) + 1
          /\ shutdownCalls' = shutdownCalls + 1
          /\ numLoops' = numLoops
          /\ execCount' = execCount
          /\ pc'[i] = "done"]_vars

\* The pause check and the running check of loop() let the cycle through.
PassesCheckpoint ==
    IF mode = PAUSE_MODE THEN playbackControl = AGENT_PLAY ELSE isRunning

\* C12 amended: with no Started task in the store, the step that receives an
\* empty initial decomposition never counts an iteration, marks no task
\* Executing and ends run(); it emits the completion notice and shuts down
\* when the checkpoint lets it through (running in Automatic mode, a step
\* authorized in Stepwise mode), and otherwise (Stepwise with the control at
\* Pause, or running set to false) returns with running false, no message and
\* no shutdown.
C12_EmptyDecompositionAmended ==
    [][\A i \in Invocations :
          EmptyDecomposition(i) /\ getRemainingTasks(State) = <<>> =>
             /\ numLoops' = numLoops
             /\ execCount' = execCount
             /\ tasks' = tasks
             /\ pc'[i] = "done"
             /\ IF PassesCheckpoint
                THEN /\ CopiesIn(CompletedMsg, messages') = CopiesIn(CompletedMsg, messages) + 1
                     /\ shutdownCalls' = shutdownCalls + 1
                     /\ isRunning'
                ELSE /\ messages' = messages
                     /\ shutdownCalls' = shutdownCalls
                     /\ ~isRunning']_vars

\* C12's witness: a Stepwise run with a step authorized got an empty initial
\* decomposition and completed at once.
C12_Witness ==
    /\ mode = PAUSE_MODE
    /\ runCalls = 1
    /\ playCount = 1
    /\ initRequests = 1
    /\ ~initFailed
    /\ nextValue = 1
    /\ pc[1] = "done"
    /\ CopiesIn(CompletedMsg, messages) = 1
    /\ shutdownCalls = 1
    /\ numLoops = 0
    /\ execCount = 0

\* The run has emitted the budget-exceeded notice.
Exhausted == CopiesIn(LoopMsg, messages) > 0

\* C13: the budget-exceeded notice is first emitted after exactly maxLoops
\* executed iterations, together with one shutdown; and from then on the task
\* store is frozen: no step changes the status of a task or adds a task.
C13_BudgetExhaustionFreezes ==
    [][/\ (~Exhausted /\ Exhausted') =>
             execCount' = maxLoops /\ shutdownCalls' = shutdownCalls + 1
       /\ Exhausted => tasks' = tasks]_vars

\* Invocation i reaches the checkpoint at the head of loop() in this step:
\* loop() either returns (run() is done) or goes on to its first delay.
ReachesCheckpoint(i) ==
    /\ pc[i] \notin {"done", "delay1"}
    /\ pc'[i] \in {"done", "delay1"}

\* C14: in Stepwise mode with the control at Pause, a cycle of loop() sets
\* running to false and returns: run() is done with no backend call pending,
\* numLoops and completedTasks are unchanged, no notice is emitted, no task is
\* marked Executing, and handlePause is called with the control, still Pause.
\* The cycle adds nothing to what the step did before reaching it: a run()
\* that enters loop() directly changes no message, task or shutdown count at
\* all; after a delay of a for loop only the task just created is new; and
\* shutdown is called only by a failed request.
C14_Step ==
    \A i \in Invocations :
       mode = PAUSE_MODE /\ playbackControl = AGENT_PAUSE /\ ReachesCheckpoint(i) =>
          /\ ~isRunning'
          /\ pc'[i] = "done"
          /\ \A j \in Invocations : j # i => pc'[j] = pc[j]
          /\ numLoops' = numLoops
          /\ completedTasks' = completedTasks
          /\ execCount' = execCount
          /\ playbackControl' = AGENT_PAUSE
          /\ pauseCalls' = Append(pauseCalls, AGENT_PAUSE)
          /\ CopiesIn(CompletedMsg, messages') = CopiesIn(CompletedMsg, messages)
          /\ CopiesIn(LoopMsg, messages') = CopiesIn(LoopMsg, messages)
          /\ pc[i] = "idle" =>
                messages' = messages /\ tasks' = tasks /\ shutdownCalls' = shutdownCalls
          /\ pc[i] \in {"initDelay", "addDelay"} =>
                /\ shutdownCalls' = shutdownCalls
                /\ BagCardinality(messages') <= BagCardinality(messages) + 1
                /\ \A k \in 1..Len(tasks) : tasks'[k] = tasks[k]
C14_PauseCycleNoEffect == [][C14_Step]_vars

\* C14's witness: a Stepwise run created its initial task and paused at the
\* first checkpoint, with nothing else done.
C14_Witness ==
    /\ mode = PAUSE_MODE
    /\ playCount = 0
    /\ runCalls = 1
    /\ pc[1] = "done"
    /\ ~isRunning
    /\ playbackControl = AGENT_PAUSE
    /\ pauseCalls = <<AGENT_PAUSE>>
    /\ Len(tasks) = 1
    /\ tasks[1].status = TASK_STATUS_STARTED
    /\ numLoops = 0
    /\ shutdownCalls = 0
    /\ completedTasks = <<>>

\* C15: a request for Play made while a Play is pending leaves the agent in
\* the state it was in (only the owner's own count of calls moves); and in
\* Stepwise mode an iteration begins only by consuming the pending Play,
\* leaving the control at Pause, so the requests that were pending together
\* authorize one iteration.
C15_Step ==
    /\ playCount' = playCount + 1 /\ playbackControl = AGENT_PLAY =>
          UNCHANGED <<isRunning, playbackControl, numLoops, completedTasks, tasks,
                      messages, shutdownCalls, pauseCalls, pc, currentTask, pending, request>>
    /\ mode = PAUSE_MODE =>
          \A i \in Invocations : BeginsIteration(i) =>
             playbackControl = AGENT_PLAY /\ playbackControl' = AGENT_PAUSE
C15_PlayIdempotent == [][C15_Step]_vars

\* C15's witness: the owner of a Stepwise run requested Play twice before the
\* first checkpoint; one iteration was executed and the run paused at the next
\* checkpoint with a task still Started.
C15_Witness ==
    /\ mode = PAUSE_MODE
    /\ runCalls = 1
    /\ playCount = 2
    /\ ownerCalls = 3
    /\ execCount = 1
    /\ numLoops = 1
    /\ pc[1] = "done"
    /\ ~isRunning
    /\ playbackControl = AGENT_PAUSE
    /\ pauseCalls = <<AGENT_PAUSE>>
    /\ \E k \in 1..Len(tasks) : tasks[k].status = TASK_STATUS_STARTED

\* new AutonomousAgent(...) with any of the playbackControl arguments and
\* any customMaxLoops of the settings, zero included.
InitCtor ==
    /\ mode \in {AUTOMATIC_MODE, PAUSE_MODE}
    /\ ctorControl \in {NoControl, AGENT_PLAY, AGENT_PAUSE}
    /\ customMaxLoops \in {NoOverride, 0, 1}
    /\ isRunning = FALSE
    /\ playbackControl = ctorPlaybackControl(mode, ctorControl)
    /\ numLoops = 0
    /\ completedTasks = <<>>
    /\ tasks = <<>>
    /\ messages = EmptyBag
    /\ shutdownCalls = 0
    /\ pauseCalls = <<>>
    /\ nextId = 1
    /\ nextValue = 1
    /\ pc = [i \in Invocations |-> "idle"]
    /\ currentTask = [i \in Invocations |-> NoTask]
    /\ pending = [i \in Invocations |-> <<>>]
    /\ request = [i \in Invocations |-> NoRequest]
    /\ runCalls = 0
    /\ ownerCalls = 0
    /\ execCount = 0
    /\ playCount = 0
    /\ initRequests = 0
    /\ initFailed = FALSE
    /\ followUpFailed = FALSE
    /\ hardStopped = FALSE
    /\ lastError = NoError
SpecCtor == InitCtor /\ [][NextShort]_vars

\* C16: a Stepwise agent constructed with Play starts with the control at
\* Play and, with no step requested, does not pause before its first
\* iteration; one constructed with Pause or with no control starts at Pause;
\* an Automatic agent never pauses: the pause hook is never called and running
\* is false only before run() or by the owner's stop.
C16_InitialControlHonoured ==
    /\ mode = PAUSE_MODE /\ ownerCalls = 0 =>
          playbackControl = IF ctorControl = AGENT_PLAY THEN AGENT_PLAY ELSE AGENT_PAUSE
    /\ mode = PAUSE_MODE /\ ctorControl = AGENT_PLAY /\ ownerCalls = 1 /\ pauseCalls # <<>> =>
          execCount >= 1 \/ tasks = <<>>
    /\ mode = AUTOMATIC_MODE =>
          pauseCalls = <<>> /\ (~isRunning => runCalls = 0 \/ hardStopped)

\* Invocation i sends its follow-up request in this step.
RequestsFollowUp(i) == pc[i] = "delay2" /\ pc'[i] = "getAdditionalTasks"

\* C17: a follow-up request carries the value of the task just completed as
\* current; as remaining the values of exactly the Started tasks of the store,
\* in store order, the task just completed not among them; and as completed
\* the completedTasks history, which ends with the current task.
\* completedTasks changes only by the step that receives the result of
\* executeTask, which appends the value of its task.
C17_Step ==
    /\ \A i \in Invocations : RequestsFollowUp(i) =>
          /\ request'[i].current = currentTask[i].value
          /\ request'[i].remaining =
                [k \in 1..Len(getRemainingTasks(State)') |-> getRemainingTasks(State)'[k].value]
          /\ \A k \in 1..Len(tasks') :
                tasks'[k].taskId = currentTask[i].taskId => tasks'[k].status # TASK_STATUS_STARTED
          /\ request'[i].completed = completedTasks'
          /\ completedTasks' # <<>>
          /\ completedTasks'[Len(completedTasks')] = currentTask[i].value
    /\ \A i \in Invocations : pc[i] = "executeTask" /\ pc'[i] = "delay2" =>
          completedTasks' = Append(completedTasks, currentTask[i].value)
    /\ (\A i \in Invocations : ~(pc[i] = "executeTask" /\ pc'[i] = "delay2")) =>
          completedTasks' = completedTasks
C17_FollowUpArguments == [][C17_Step]_vars

\* The status the store has for the task with this id.
StatusOf(ts, id) == {ts[k].status : k \in {j \in 1..Len(ts) : ts[j].taskId = id}}

\* Invocation i learns in this step that its iteration derived no follow-up
\* task: getAdditionalTasks returned an empty list or failed.
DerivesNothing(i) ==
    /\ pc[i] = "getAdditionalTasks"
    /\ pc'[i] \notin {"getAdditionalTasks", "addDelay"}

\* C18: the step in which an iteration turns out to derive no follow-up task
\* marks its task Final; a task becomes Final only in such a step of its own
\* iteration; while the follow-ups of an iteration are being created, and
\* after the last one was, its task is Completed; and a Final task stays
\* Final, so it is never selected again.
C18_Step ==
    /\ \A i \in Invocations : DerivesNothing(i) =>
          StatusOf(tasks', currentTask[i].taskId) = {TASK_STATUS_FINAL}
    /\ \A k \in 1..Len(tasks) :
          tasks[k].status # TASK_STATUS_FINAL /\ tasks'[k].status = TASK_STATUS_FINAL =>
             \E i \in Invocations : DerivesNothing(i) /\ currentTask[i].taskId = tasks[k].taskId
    /\ \A i \in Invocations : pc[i] = "addDelay" =>
          StatusOf(tasks', currentTask[i].taskId) = {TASK_STATUS_COMPLETED}
    /\ \A k \in 1..Len(tasks) :
          tasks[k].status = TASK_STATUS_FINAL => tasks'[k].status = TASK_STATUS_FINAL
C18_FinalIffNoFollowUps == [][C18_Step]_vars

\* Every run() invocation has returned or was rejected, a completion or
\* budget-exceeded notice was emitted and shutdown was called.
Finished ==
    /\ \A i \in Invocations : pc[i] \in {"idle", "done", "rejected"}
    /\ CopiesIn(CompletedMsg, messages) > 0 \/ CopiesIn(LoopMsg, messages) > 0
    /\ shutdownCalls >= 1

\* C19: in Automatic mode, when every backend call and delay comes back and
\* the owner never stops the agent, a run that was started eventually reaches
\* a terminal state, Completed or LoopLimitReached, with shutdown called.
C19_AutomaticTerminates == (mode = AUTOMATIC_MODE /\ runCalls >= 1) ~> Finished

\* C19's witness: an Automatic run used up its budget with a task still
\* pending and ended with the budget-exceeded notice and one shutdown.
C19_Witness ==
    /\ mode = AUTOMATIC_MODE
    /\ runCalls = 1
    /\ pc[1] = "done"
    /\ CopiesIn(LoopMsg, messages) = 1
    /\ CopiesIn(CompletedMsg, messages) = 0
    /\ shutdownCalls = 1
    /\ numLoops = maxLoops + 1
    /\ \E k \in 1..Len(tasks) : tasks[k].status = TASK_STATUS_STARTED

\* The loop maximum the specification describes: the override when one is
\* configured, the system default otherwise.
ClaimedMaxLoops ==
    IF customMaxLoops # NoOverride THEN customMaxLoops ELSE DEFAULT_MAX_LOOPS_FREE

\* C20: the budget check uses the override whenever one is configured, zero
\* included, and the default otherwise: an iteration begins only with numLoops
\* within that maximum, the budget-exceeded notice is emitted only with
\* numLoops beyond it, and with an override of N at most N tasks are ever
\* marked Executing.
C20_MaxLoopsOverride ==
    [][/\ \A i \in Invocations : BeginsIteration(i) => numLoops' <= ClaimedMaxLoops
       /\ CopiesIn(LoopMsg, messages') > CopiesIn(LoopMsg, messages) =>
             numLoops' > ClaimedMaxLoops
       /\ customMaxLoops # NoOverride => execCount' <= customMaxLoops]_vars

====
